---- MODULE Spec2Model ----
(***************************************************************************)
(* Presence-debounce and actuator-control core of the cat window          *)
(* controller: the Modbus command-line tool (cat_window.py), the          *)
(* WindowController (window_controller.py), the two detectors             *)
(* (cat_detector.py, cat_detector_callback.py) and the Telegram commands  *)
(* that drive the controller (telegram_commands.py).                      *)
(*                                                                         *)
(* Time is counted in whole seconds, angles in whole degrees, register    *)
(* values in tenths of a degree, confidences and normalized positions in  *)
(* hundredths.                                                             *)
(***************************************************************************)
EXTENDS Integers, Sequences, FiniteSets, TLC

\* ------------------------------------------------------------------ bounds
MaxTime == 10          \* the clock stops here (detector with Telegram)
MaxAutoTime == 17      \* the same, for automatic operation alone
MaxApiTime == 10       \* the same, for the controller driven on its own
MaxCmdDur == 1         \* longest time a transport command blocks its caller
MaxPerSecond == 1      \* qualifying frames within one second of the clock
MaxConcTime == 6       \* the clock stops here (two threads, one controller)
MaxFilterTime == 7      \* the clock stops here (the detection filter alone)
QuietFrom == 3          \* from here on every frame is empty (liveness)
MaxLiveTime == 20       \* the clock stops here (liveness)
MaxAngleTime == 8       \* the clock stops here (set_window_angle in steps)

\* ------------------------------------------------------- program constants
None == -1             \* Python None for an optional timestamp

CLOSED_ANGLE == 77
OPEN_ANGLE == 120
LOCK_CLOSED == 0
LOCK_OPEN == 90
command_cooldown == 5

required_detection_time == 10
required_no_detection_time == 3
detection_filter_window == 3
min_confidence == 70
left_boundary == 0
right_boundary == 50

cb_detection_filter_window == 5
min_confidence_closed == 70
min_confidence_open == 50

LEAF_TOLERANCE == 1        \* 0.1 degree, in tenths
LOCK_TOLERANCE == 50       \* 5.0 degrees, in tenths
CLI_MAX_ANGLE == 135

Abs(x) == IF x < 0 THEN -x ELSE x

\* ------------------------------------------------ transport / device model
\* What the serial link and the device answer during one operation: the
\* connection fails, or one of the two actuators misbehaves (a sequence
\* stops at its first failing step, so one fault per operation covers
\* every outcome), or everything works.  "reached": the readback comes
\* within tolerance of the setpoint; "off": it stays Off tenths away
\* (until the timeout, for the leaf); "write_fail": the write gets no
\* answer; "read_fail": no readback is obtained.
Answers == {"reached", "off", "write_fail", "read_fail"}

Env == {[connect |-> FALSE, leaf |-> "reached", lock |-> "reached"]}
       \cup [connect : {TRUE}, leaf : Answers, lock : {"reached"}]
       \cup [connect : {TRUE}, leaf : {"reached"}, lock : Answers]

OkEnv == [connect |-> TRUE, leaf |-> "reached", lock |-> "reached"]

\* The tool is interrupted (KeyboardInterrupt) while it polls the leaf:
\* the write was answered, no readback concluded the poll (recorded as
\* an event "I" on register 1), the process ends with a non-zero status.
InterruptedEnv ==
  [connect |-> TRUE, leaf |-> "interrupted", lock |-> "reached"]

Off == 130             \* how far a readback that is "off" stays, in tenths

WireEv(rw, reg, val, ok) == [rw |-> rw, reg |-> reg, val |-> val, ok |-> ok]

\* int(round(angle * 10)) for an angle in whole degrees.
angle_to_register(angle) == angle * 10

\* cat_window.set_window_angle: write register 0, poll register 1 until
\* it is within 0.1 degree or 30 s have passed.
cw_set_window_angle(angle, env) ==
  LET angle_reg == angle_to_register(angle) IN
  IF env.leaf = "write_fail"
  THEN [ok |-> FALSE, wire |-> <<WireEv("W", 0, angle_reg, FALSE)>>]
  ELSE IF env.leaf = "interrupted"
  THEN [ok |-> FALSE, wire |-> <<WireEv("W", 0, angle_reg, TRUE),
                                 WireEv("I", 1, 0, FALSE)>>]
  ELSE IF env.leaf = "read_fail"
  THEN [ok |-> FALSE, wire |-> <<WireEv("W", 0, angle_reg, TRUE),
                                 WireEv("R", 1, 0, FALSE)>>]
  ELSE LET pos == IF env.leaf = "off" THEN angle_reg + Off ELSE angle_reg
           reached == Abs(pos - angle * 10) <= LEAF_TOLERANCE
       IN [ok |-> reached,
           wire |-> <<WireEv("W", 0, angle_reg, TRUE),
                      WireEv("R", 1, pos, reached)>>]

\* cat_window.set_lock_angle: write register 2, read register 3 once.
set_lock_angle(angle, env) ==
  LET angle_reg == angle_to_register(angle) IN
  IF env.lock = "write_fail"
  THEN [ok |-> FALSE, wire |-> <<WireEv("W", 2, angle_reg, FALSE)>>]
  ELSE IF env.lock = "read_fail"
  THEN [ok |-> FALSE, wire |-> <<WireEv("W", 2, angle_reg, TRUE),
                                 WireEv("R", 3, 0, FALSE)>>]
  ELSE LET pos == IF env.lock = "off" THEN angle_reg + Off ELSE angle_reg
           reached == Abs(pos - angle * 10) <= LOCK_TOLERANCE
       IN [ok |-> reached,
           wire |-> <<WireEv("W", 2, angle_reg, TRUE),
                      WireEv("R", 3, pos, reached)>>]

lock_window(env) == set_lock_angle(0, env)

unlock_window(env) == set_lock_angle(90, env)

open_window(env) ==
  LET r1 == unlock_window(env) IN
  IF ~r1.ok THEN r1
  ELSE LET r2 == cw_set_window_angle(120, env) IN
       [ok |-> r2.ok, wire |-> r1.wire \o r2.wire]

close_window_locks_anyway(env) ==
  LET r1 == cw_set_window_angle(77, env)
      r2 == lock_window(env)
  IN [ok |-> r1.ok /\ r2.ok, wire |-> r1.wire \o r2.wire]

close_window(env) ==
  LET r1 == cw_set_window_angle(77, env) IN
  IF ~r1.ok THEN r1
  ELSE LET r2 == lock_window(env) IN
       [ok |-> r2.ok, wire |-> r1.wire \o r2.wire]

\* cat_window.main: connect, dispatch on the command, exit status.
main(comando, arg, env) ==
  IF ~env.connect THEN [ok |-> FALSE, wire |-> <<>>]
  ELSE CASE comando = "finestra" ->
              IF ~(77 <= arg /\ arg <= CLI_MAX_ANGLE)
              THEN [ok |-> FALSE, wire |-> <<>>]
              ELSE cw_set_window_angle(arg, env)
         [] comando = "apri" -> open_window(env)
         [] comando = "chiudi" -> close_window(env)
         [] comando = "sblocca" -> unlock_window(env)
         [] comando = "blocca" -> lock_window(env)
         [] OTHER -> [ok |-> FALSE, wire |-> <<>>]

\* WindowController._execute_window_command: run the tool, True iff exit 0.
execute_window_command(command, arg, env) == main(command, arg, env)

\* ------------------------------------------------------- WindowController
WcInit ==
  [current_angle |-> CLOSED_ANGLE, target_angle |-> CLOSED_ANGLE,
   current_lock_angle |-> LOCK_CLOSED, target_lock_angle |-> LOCK_CLOSED,
   last_command_time |-> None, manual_mode |-> FALSE,
   is_window_open |-> FALSE, is_window_locked |-> TRUE]

\* Result of a controller call: the new controller state, the
\* returned value, the tool commands that were run and their wire traffic;
\* notify is what its caller then sent to the Telegram notifier.
Res(w, ret, cmds, wire, branch) ==
  [wc |-> w, ret |-> ret, cmds |-> cmds, wire |-> wire,
   branch |-> branch, notify |-> <<>>]

in_cooldown_off_by_one(w, t) ==
  w.last_command_time # None
  /\ t - w.last_command_time < command_cooldown - 1

\* The guard of lines 76-77, 134-135 and 185-186.
in_cooldown(w, t) ==
  w.last_command_time # None /\ t - w.last_command_time < command_cooldown

\* The assignments after a successful 'apri' without the one to
\* target_angle.
Opened_keeps_target(w) ==
  [w EXCEPT !.current_angle = OPEN_ANGLE,
            !.current_lock_angle = LOCK_OPEN,
            !.target_lock_angle = LOCK_OPEN,
            !.is_window_open = TRUE, !.is_window_locked = FALSE]

\* The fields set_window_position assigns after a successful command.
Opened(w) ==
  [w EXCEPT !.current_angle = OPEN_ANGLE, !.target_angle = OPEN_ANGLE,
            !.current_lock_angle = LOCK_OPEN, !.target_lock_angle = LOCK_OPEN,
            !.is_window_open = TRUE, !.is_window_locked = FALSE]

Closed(w) ==
  [w EXCEPT !.current_angle = CLOSED_ANGLE, !.target_angle = CLOSED_ANGLE,
            !.current_lock_angle = LOCK_CLOSED,
            !.target_lock_angle = LOCK_CLOSED,
            !.is_window_open = FALSE, !.is_window_locked = TRUE]

\* set_window_position with one slip: "stamp_noop" stamps last_command_time
\* before the idempotency test, "suppress_manual" drops "and not manual"
\* from that test, "keep_lock_flag" forgets is_window_locked on success.
set_window_position_slip(w, should_be_open, manual, t, env, slip) ==
  IF in_cooldown(w, t) THEN Res(w, FALSE, <<>>, <<>>, "cooldown")
  ELSE
    LET w0 == IF manual THEN [w EXCEPT !.manual_mode = TRUE] ELSE w
        w1 == IF slip = "stamp_noop"
              THEN [w0 EXCEPT !.last_command_time = t] ELSE w0
        command == IF should_be_open THEN "apri" ELSE "chiudi"
    IN IF should_be_open = w1.is_window_open
          /\ (~manual \/ slip = "suppress_manual")
       THEN Res(w1, FALSE, <<>>, <<>>, "noop")
       ELSE LET r == execute_window_command(command, 0, env)
                w2 == IF should_be_open THEN Opened(w1) ELSE Closed(w1)
                w3 == IF slip = "keep_lock_flag"
                      THEN [w2 EXCEPT !.is_window_locked = w.is_window_locked]
                      ELSE w2
            IN IF r.ok
               THEN Res([w3 EXCEPT !.last_command_time = t], TRUE,
                        <<command>>, r.wire, "exec")
               ELSE Res(w1, FALSE, <<command>>, r.wire, "exec")

set_window_position_stamp_noop(w, should_be_open, manual, t, env) ==
  set_window_position_slip(w, should_be_open, manual, t, env, "stamp_noop")

set_window_position_suppress_manual(w, should_be_open, manual, t, env) ==
  set_window_position_slip(w, should_be_open, manual, t, env,
                           "suppress_manual")

set_window_position_keep_lock_flag(w, should_be_open, manual, t, env) ==
  set_window_position_slip(w, should_be_open, manual, t, env,
                           "keep_lock_flag")

\* WindowController.set_window_position, called at time t.
set_window_position(w, should_be_open, manual, t, env) ==
  IF in_cooldown(w, t) THEN Res(w, FALSE, <<>>, <<>>, "cooldown")
  ELSE
    LET w1 == IF manual THEN [w EXCEPT !.manual_mode = TRUE] ELSE w IN
    IF should_be_open = w1.is_window_open /\ ~manual
    THEN Res(w1, FALSE, <<>>, <<>>, "noop")
    ELSE IF should_be_open
    THEN LET r == execute_window_command("apri", 0, env) IN
         IF r.ok
         THEN Res([Opened(w1) EXCEPT !.last_command_time = t], TRUE,
                  <<"apri">>, r.wire, "exec")
         ELSE Res(w1, FALSE, <<"apri">>, r.wire, "exec")
    ELSE LET r == execute_window_command("chiudi", 0, env) IN
         IF r.ok
         THEN Res([Closed(w1) EXCEPT !.last_command_time = t], TRUE,
                  <<"chiudi">>, r.wire, "exec")
         ELSE Res(w1, FALSE, <<"chiudi">>, r.wire, "exec")

\* set_window_position up to the point where it starts its command
\* (lines 74-90): branch "exec" says the command is to be run.
set_window_position_enter(w, should_be_open, manual, t) ==
  IF in_cooldown(w, t) THEN Res(w, FALSE, <<>>, <<>>, "cooldown")
  ELSE
    LET w1 == IF manual THEN [w EXCEPT !.manual_mode = TRUE] ELSE w IN
    IF should_be_open = w1.is_window_open /\ ~manual
    THEN Res(w1, FALSE, <<>>, <<>>, "noop")
    ELSE Res(w1, FALSE, <<>>, <<>>, "exec")

\* set_window_position from the start of its command to its return
\* (lines 92-118), on the fields as they are when the command ends; t
\* is the current_time taken when the call started.
set_window_position_return(w, should_be_open, t, env) ==
  LET command == IF should_be_open THEN "apri" ELSE "chiudi"
      r == execute_window_command(command, 0, env)
      w2 == IF should_be_open THEN Opened(w) ELSE Closed(w)
  IN IF r.ok
     THEN Res([w2 EXCEPT !.last_command_time = t], TRUE, <<command>>,
              r.wire, "exec")
     ELSE Res(w, FALSE, <<command>>, r.wire, "exec")

\* set_lock_position that takes a successful 'blocca' for a 'chiudi' and
\* assigns the leaf fields too.
set_lock_position_moves_leaf(w, should_be_locked, manual, t, env) ==
  IF in_cooldown(w, t) THEN Res(w, FALSE, <<>>, <<>>, "cooldown")
  ELSE
    LET w1 == IF manual THEN [w EXCEPT !.manual_mode = TRUE] ELSE w IN
    IF should_be_locked = w1.is_window_locked /\ ~manual
    THEN Res(w1, FALSE, <<>>, <<>>, "noop")
    ELSE IF should_be_locked
    THEN LET r == execute_window_command("blocca", 0, env) IN
         IF r.ok
         THEN Res([Closed(w1) EXCEPT !.last_command_time = t],
                  TRUE, <<"blocca">>, r.wire, "exec")
         ELSE Res(w1, FALSE, <<"blocca">>, r.wire, "exec")
    ELSE LET r == execute_window_command("sblocca", 0, env) IN
         IF r.ok
         THEN Res([w1 EXCEPT !.current_lock_angle = LOCK_OPEN,
                             !.target_lock_angle = LOCK_OPEN,
                             !.is_window_locked = FALSE,
                             !.last_command_time = t],
                  TRUE, <<"sblocca">>, r.wire, "exec")
         ELSE Res(w1, FALSE, <<"sblocca">>, r.wire, "exec")

\* WindowController.set_lock_position, called at time t.
set_lock_position(w, should_be_locked, manual, t, env) ==
  IF in_cooldown(w, t) THEN Res(w, FALSE, <<>>, <<>>, "cooldown")
  ELSE
    LET w1 == IF manual THEN [w EXCEPT !.manual_mode = TRUE] ELSE w IN
    IF should_be_locked = w1.is_window_locked /\ ~manual
    THEN Res(w1, FALSE, <<>>, <<>>, "noop")
    ELSE IF should_be_locked
    THEN LET r == execute_window_command("blocca", 0, env) IN
         IF r.ok
         THEN Res([w1 EXCEPT !.current_lock_angle = LOCK_CLOSED,
                             !.target_lock_angle = LOCK_CLOSED,
                             !.is_window_locked = TRUE,
                             !.last_command_time = t],
                  TRUE, <<"blocca">>, r.wire, "exec")
         ELSE Res(w1, FALSE, <<"blocca">>, r.wire, "exec")
    ELSE LET r == execute_window_command("sblocca", 0, env) IN
         IF r.ok
         THEN Res([w1 EXCEPT !.current_lock_angle = LOCK_OPEN,
                             !.target_lock_angle = LOCK_OPEN,
                             !.is_window_locked = FALSE,
                             !.last_command_time = t],
                  TRUE, <<"sblocca">>, r.wire, "exec")
         ELSE Res(w1, FALSE, <<"sblocca">>, r.wire, "exec")

\* WindowController.set_window_angle, called at time t.  The nested
\* set_lock_position reads the clock again within the same second.
set_window_angle(w, angle, manual, t, env) ==
  IF in_cooldown(w, t) THEN Res(w, FALSE, <<>>, <<>>, "cooldown")
  ELSE
    LET w1 == IF manual THEN [w EXCEPT !.manual_mode = TRUE] ELSE w IN
    IF ~(CLOSED_ANGLE <= angle /\ angle <= OPEN_ANGLE)
    THEN Res(w1, FALSE, <<>>, <<>>, "range")
    ELSE
      LET u == IF w1.is_window_locked
               THEN set_lock_position(w1, FALSE, manual, t, env)
               ELSE Res(w1, TRUE, <<>>, <<>>, "exec")
      IN IF ~u.ret
         THEN Res(u.wc, FALSE, u.cmds, u.wire, "unlock_failed")
         ELSE LET r == execute_window_command("finestra", angle, env)
              IN IF r.ok
                 THEN Res([u.wc EXCEPT
                             !.current_angle = angle,
                             !.target_angle = angle,
                             !.is_window_open = (angle > CLOSED_ANGLE + 5),
                             !.last_command_time = t],
                          TRUE, u.cmds \o <<"finestra">>,
                          u.wire \o r.wire, "exec")
                 ELSE Res(u.wc, FALSE, u.cmds \o <<"finestra">>,
                          u.wire \o r.wire, "exec")

\* set_window_angle up to the end of its nested set_lock_position
\* (lines 183-207): t is the current_time of set_window_angle, t1 the
\* current_time the nested call takes after it.  Branch "exec" says the
\* leaf command is to be run next.
set_window_angle_unlock(w, angle, manual, t, t1, env) ==
  IF in_cooldown(w, t) THEN Res(w, FALSE, <<>>, <<>>, "cooldown")
  ELSE
    LET w1 == IF manual THEN [w EXCEPT !.manual_mode = TRUE] ELSE w IN
    IF ~(CLOSED_ANGLE <= angle /\ angle <= OPEN_ANGLE)
    THEN Res(w1, FALSE, <<>>, <<>>, "range")
    ELSE
      LET u == IF w1.is_window_locked
               THEN set_lock_position(w1, FALSE, manual, t1, env)
               ELSE Res(w1, TRUE, <<>>, <<>>, "exec")
      IN IF ~u.ret
         THEN Res(u.wc, FALSE, u.cmds, u.wire, "unlock_failed")
         ELSE Res(u.wc, FALSE, u.cmds, u.wire, "exec")

\* set_window_angle from its leaf command to its return (lines 209-221);
\* t is the current_time taken when set_window_angle started.
set_window_angle_move(w, angle, t, env) ==
  LET r == execute_window_command("finestra", angle, env)
  IN IF r.ok
     THEN Res([w EXCEPT !.current_angle = angle,
                        !.target_angle = angle,
                        !.is_window_open = (angle > CLOSED_ANGLE + 5),
                        !.last_command_time = t],
              TRUE, <<"finestra">>, r.wire, "exec")
     ELSE Res(w, FALSE, <<"finestra">>, r.wire, "exec")

auto_control_enabled(w) == ~w.manual_mode

disable_auto_control(w) == [w EXCEPT !.manual_mode = TRUE]

enable_auto_control(w) == [w EXCEPT !.manual_mode = FALSE]

\* --------------------------------------------------------------- detectors
\* One detection of a frame: label, confidence and bounding-box centre
\* (hundredths of the frame width); NoDetection is a frame without objects.
NoDetection == [label |-> "none", conf |-> 0, x |-> 0]

Samples ==
  {NoDetection,
   [label |-> "cat", conf |-> 75, x |-> 25],
   [label |-> "cat", conf |-> 60, x |-> 25],
   [label |-> "cat", conf |-> 75, x |-> 80],
   [label |-> "dog", conf |-> 90, x |-> 25]}

NoCall(w) == Res(w, FALSE, <<>>, <<>>, "nocall")

\* A threshold that does not look at the window.
get_current_confidence_threshold_fixed(w) == min_confidence

\* CatDetectorApp.get_current_confidence_threshold (min_confidence * 0.8).
get_current_confidence_threshold(w) ==
  IF w.is_window_open THEN (min_confidence * 8) \div 10 ELSE min_confidence

\* CatDetectorApp.is_within_roi, on the normalized position.
is_within_roi(normalized_x) ==
  left_boundary <= normalized_x /\ normalized_x <= right_boundary

\* HeadlessCatDetectorCallback.get_current_confidence_threshold.
cb_get_current_confidence_threshold(w) ==
  IF w.is_window_open THEN min_confidence_open ELSE min_confidence_closed

\* update_detection_filter pruning only when it appends.
update_detection_filter_prune_on_hit(recent_detections, cat_detected, current_time, window) ==
  LET kept == SelectSeq(recent_detections,
                        LAMBDA x : current_time - x < window)
      new == IF cat_detected THEN Append(kept, current_time)
             ELSE recent_detections
  IN [recent_detections |-> new, present |-> Len(new) > 0]

\* update_detection_filter keeping a detection aged exactly window.
update_detection_filter_inclusive(recent_detections, cat_detected, current_time, window) ==
  LET kept == SelectSeq(recent_detections,
                        LAMBDA x : current_time - x <= window)
      new == IF cat_detected THEN Append(kept, current_time) ELSE kept
  IN [recent_detections |-> new, present |-> Len(new) > 0]

\* update_detection_filter of both detectors; window is the class's
\* detection_filter_window.
update_detection_filter(recent_detections, cat_detected, current_time, window) ==
  LET kept == SelectSeq(recent_detections,
                        LAMBDA x : current_time - x < window)
      new == IF cat_detected THEN Append(kept, current_time) ELSE kept
  IN [recent_detections |-> new, present |-> Len(new) > 0]

AppInit ==
  [current_detection_time |-> None, current_no_detection_time |-> None,
   recent_detections |-> <<>>]

CbInit ==
  [last_cat_time |-> None, last_no_cat_time |-> None,
   recent_detections |-> <<>>]

\* What the detectors do with the value set_window_position returns:
\* send_window_status when it is True, nothing at all when it is False.
Notified(r, is_open) ==
  IF r.ret
  THEN [r EXCEPT !.notify = <<[kind |-> "window_status",
                               is_open |-> is_open]>>]
  ELSE r

\* CatDetectorApp.process_cat_detection with one slip: "keep_absence"
\* forgets to reset the absence timer on presence, "strict_dwell" and
\* "strict_absence" compare the elapsed time with > instead of >=,
\* "ignore_manual" skips the auto_control_enabled test, "request_manual"
\* passes manual=True to the controller, "restart_dwell" assigns the
\* presence timer on every tick with presence.
process_cat_detection_slip(a, w, filtered_cat_present, current_time, env, slip) ==
  IF ~auto_control_enabled(w) /\ slip # "ignore_manual" THEN [det |-> a, r |-> NoCall(w)]
  ELSE IF filtered_cat_present
  THEN LET a0 == [a EXCEPT !.current_detection_time =
                              IF @ = None \/ slip = "restart_dwell"
                              THEN current_time ELSE @]
           a1 == IF slip = "keep_absence" THEN a0
                 ELSE [a0 EXCEPT !.current_no_detection_time = None]
           cat_present_time == current_time - a1.current_detection_time
       IN IF cat_present_time > required_detection_time
             \/ (cat_present_time = required_detection_time
                 /\ slip # "strict_dwell")
          THEN [det |-> a1,
                r |-> Notified(set_window_position(w, TRUE, slip = "request_manual",
                                                   current_time, env), TRUE)]
          ELSE [det |-> a1, r |-> NoCall(w)]
  ELSE LET a1 == [a EXCEPT !.current_no_detection_time =
                              IF @ = None THEN current_time ELSE @,
                           !.current_detection_time = None]
           cat_absent_time == current_time - a1.current_no_detection_time
       IN IF cat_absent_time > required_no_detection_time
             \/ (cat_absent_time = required_no_detection_time
                 /\ slip # "strict_absence")
          THEN [det |-> a1,
                r |-> Notified(set_window_position(w, FALSE, slip = "request_manual",
                                                   current_time, env), FALSE)]
          ELSE [det |-> a1, r |-> NoCall(w)]

process_cat_detection_keep_absence(a, w, filtered_cat_present, current_time, env) ==
  process_cat_detection_slip(a, w, filtered_cat_present, current_time, env,
                             "keep_absence")

process_cat_detection_strict_dwell(a, w, filtered_cat_present, current_time, env) ==
  process_cat_detection_slip(a, w, filtered_cat_present, current_time, env,
                             "strict_dwell")

process_cat_detection_strict_absence(a, w, filtered_cat_present, current_time, env) ==
  process_cat_detection_slip(a, w, filtered_cat_present, current_time, env,
                             "strict_absence")

process_cat_detection_ignore_manual(a, w, filtered_cat_present, current_time, env) ==
  process_cat_detection_slip(a, w, filtered_cat_present, current_time, env,
                             "ignore_manual")

process_cat_detection_request_manual(a, w, filtered_cat_present, current_time, env) ==
  process_cat_detection_slip(a, w, filtered_cat_present, current_time, env,
                             "request_manual")

process_cat_detection_restart_dwell(a, w, filtered_cat_present, current_time, env) ==
  process_cat_detection_slip(a, w, filtered_cat_present, current_time, env,
                             "restart_dwell")

\* CatDetectorApp.process_cat_detection.
process_cat_detection(a, w, filtered_cat_present, current_time, env) ==
  IF ~auto_control_enabled(w) THEN [det |-> a, r |-> NoCall(w)]
  ELSE IF filtered_cat_present
  THEN LET a1 == [a EXCEPT !.current_detection_time =
                              IF @ = None THEN current_time ELSE @,
                           !.current_no_detection_time = None]
           cat_present_time == current_time - a1.current_detection_time
       IN IF cat_present_time >= required_detection_time
          THEN [det |-> a1,
                r |-> Notified(set_window_position(w, TRUE, FALSE, current_time,
                                                   env), TRUE)]
          ELSE [det |-> a1, r |-> NoCall(w)]
  ELSE LET a1 == [a EXCEPT !.current_no_detection_time =
                              IF @ = None THEN current_time ELSE @,
                           !.current_detection_time = None]
           cat_absent_time == current_time - a1.current_no_detection_time
       IN IF a1.current_no_detection_time # None
             /\ cat_absent_time >= required_no_detection_time
          THEN [det |-> a1,
                r |-> Notified(set_window_position(w, FALSE, FALSE, current_time,
                                                   env), FALSE)]
          ELSE [det |-> a1, r |-> NoCall(w)]

\* HeadlessCatDetectorCallback.process_cat_detection comparing the time
\* of presence with > instead of >=.
cb_process_cat_detection_strict_dwell(c, w, filtered_cat_present, current_time, env) ==
  LET a == [current_detection_time |-> c.last_cat_time,
            current_no_detection_time |-> c.last_no_cat_time,
            recent_detections |-> c.recent_detections]
      p == process_cat_detection_slip(a, w, filtered_cat_present,
                                      current_time, env, "strict_dwell")
  IN [det |-> [last_cat_time |-> p.det.current_detection_time,
               last_no_cat_time |-> p.det.current_no_detection_time,
               recent_detections |-> p.det.recent_detections],
      r |-> p.r]

\* HeadlessCatDetectorCallback.process_cat_detection.
cb_process_cat_detection(c, w, filtered_cat_present, current_time, env) ==
  IF ~auto_control_enabled(w) THEN [det |-> c, r |-> NoCall(w)]
  ELSE IF filtered_cat_present
  THEN LET c1 == [c EXCEPT !.last_cat_time =
                              IF @ = None THEN current_time ELSE @,
                           !.last_no_cat_time = None]
           cat_present_time == current_time - c1.last_cat_time
       IN IF cat_present_time >= required_detection_time
          THEN [det |-> c1,
                r |-> Notified(set_window_position(w, TRUE, FALSE, current_time,
                                                   env), TRUE)]
          ELSE [det |-> c1, r |-> NoCall(w)]
  ELSE LET c1 == [c EXCEPT !.last_no_cat_time =
                              IF @ = None THEN current_time ELSE @,
                           !.last_cat_time = None]
           cat_absent_time == current_time - c1.last_no_cat_time
       IN IF c1.last_no_cat_time # None
             /\ cat_absent_time >= required_no_detection_time
          THEN [det |-> c1,
                r |-> Notified(set_window_position(w, FALSE, FALSE, current_time,
                                                   env), FALSE)]
          ELSE [det |-> c1, r |-> NoCall(w)]

\* ------------------------------------------------ one run of cat_window.py
\* Inside the tool, time is counted in tenths of a second and angles in
\* hundredths of a degree (the command line takes any decimal number).
max_retries == 5
retry_delay == 2
timeout == 30
poll_sleep == 1          \* time.sleep(0.1) between two polls
read_retry_sleep == 5    \* time.sleep(0.5) after a read that failed
fuser_sleep == 5         \* time.sleep(0.5) after fuser -k
lock_sleep == 10         \* time.sleep(1) before the lock readback
usb_reset_sleep == 30    \* reset_usb_device: sleep(1) then sleep(2)

\* Python's round() of n/d: to the nearest integer, ties to the even one.
py_round(n, d) ==
  LET q == n \div d
      r == n - q * d
  IN IF 2 * r < d THEN q
     ELSE IF 2 * r > d THEN q + 1
     ELSE IF q % 2 = 0 THEN q ELSE q + 1

\* int(round(angle)): the register value without the scaling by ten.
angle_reg_unscaled(angle, err) == py_round(angle * 100 + err, 10000)

\* angle_reg = int(round(angle * 10)).  The floating-point product is the
\* exact one up to an error err of at most a thousandth of a register unit.
angle_reg(angle, err) == py_round(angle * 100 + err, 1000)

\* current_angle = float(result.registers[0]) / 10.0
current_angle(reg) == reg * 10

\* The tool before it is started.  pc is where the process stands; client
\* is "unset" before connect_with_retry returns, then "open", "none" (no
\* connection) or "closed"; tries counts the client.connect() calls,
\* sleeps the time.sleep(retry_delay) calls; since is the time slept since
\* the previous connect() call and gap the time between the latest two;
\* reset is how reset_usb_device ended in the latest iteration of the
\* retry loop ("" when it was not called).
CliIdle ==
  [pc |-> "idle", comando |-> "", angle |-> 0, attempt |-> 0, tries |-> 0,
   sleeps |-> 0, since |-> 0, gap |-> 0, client |-> "unset", reg |-> None,
   written |-> FALSE, elapsed |-> 0, readback |-> None, exit |-> None,
   why |-> "", reset |-> ""]

\* sys.exit(code) inside main's try: the finally clause closes the client.
Exit(c, code, why) ==
  [c EXCEPT !.pc = "done", !.exit = code, !.client = "closed", !.why = why]

\* connect_with_retry where an exception of reset_usb_device reaches the
\* except clause of the loop: the iteration's client.connect() is skipped.
connect_with_retry_reset_propagates(c, ok, usb) ==
  LET called == c.attempt > 0 /\ c.attempt % 2 = 1
      recover == IF c.attempt > 0
                 THEN fuser_sleep + (IF called /\ usb = "done"
                                     THEN usb_reset_sleep ELSE 0)
                 ELSE 0
      skipped == called /\ usb = "raised"
      c1 == [c EXCEPT !.tries = IF skipped THEN @ ELSE @ + 1,
                      !.gap = c.since + recover,
                      !.reset = IF called THEN usb ELSE ""]
  IN IF ok /\ ~skipped
     THEN [c1 EXCEPT !.client = "open", !.pc = "command"]
     ELSE IF c.attempt < max_retries - 1
     THEN [c1 EXCEPT !.attempt = @ + 1, !.sleeps = @ + 1,
                     !.since = retry_delay * 10]
     ELSE [c1 EXCEPT !.attempt = @ + 1, !.client = "none", !.pc = "done",
                     !.exit = 1, !.why = "connect"]

\* connect_with_retry that sleeps retry_delay after the last attempt too.
connect_with_retry_sleep_after_last(c, ok, usb) ==
  LET called == c.attempt > 0 /\ c.attempt % 2 = 1
      recover == IF c.attempt > 0
                 THEN fuser_sleep + (IF called /\ usb = "done"
                                     THEN usb_reset_sleep ELSE 0)
                 ELSE 0
      c1 == [c EXCEPT !.tries = @ + 1, !.gap = c.since + recover,
                      !.reset = IF called THEN usb ELSE ""]
  IN IF ok
     THEN [c1 EXCEPT !.client = "open", !.pc = "command"]
     ELSE IF c.attempt < max_retries - 1
     THEN [c1 EXCEPT !.attempt = @ + 1, !.sleeps = @ + 1,
                     !.since = retry_delay * 10]
     ELSE [c1 EXCEPT !.attempt = @ + 1, !.sleeps = @ + 1,
                     !.client = "none", !.pc = "done", !.exit = 1,
                     !.why = "connect"]

\* One iteration of the loop of connect_with_retry, and what main does
\* when the loop is over without a connection (sys.exit(1) before the
\* try block): ok is what client.connect() answers (an exception counts
\* as False), usb how reset_usb_device would end: "done" (device found,
\* unbind, bind and the sleeps, True), "failed" (readlink fails, False) or
\* "raised" (an exception, caught inside reset_usb_device, False).
connect_with_retry(c, ok, usb) ==
  LET called == c.attempt > 0 /\ c.attempt % 2 = 1
      recover == IF c.attempt > 0
                 THEN fuser_sleep + (IF called /\ usb = "done"
                                     THEN usb_reset_sleep ELSE 0)
                 ELSE 0
      c1 == [c EXCEPT !.tries = @ + 1, !.gap = c.since + recover,
                      !.reset = IF called THEN usb ELSE ""]
  IN IF ok
     THEN [c1 EXCEPT !.client = "open", !.pc = "command"]
     ELSE IF c.attempt < max_retries - 1
     THEN [c1 EXCEPT !.attempt = @ + 1, !.sleeps = @ + 1,
                     !.since = retry_delay * 10]
     ELSE [c1 EXCEPT !.attempt = @ + 1, !.client = "none", !.pc = "done",
                     !.exit = 1, !.why = "connect"]

\* main after the connection: the range test of the command, then the
\* write of the setpoint register (w: the write is answered).
main_command(c, w, err) ==
  LET lo == IF c.comando = "finestra" THEN 77 * 100 ELSE 0
      hi == IF c.comando = "finestra" THEN CLI_MAX_ANGLE * 100
            ELSE 90 * 100
  IN IF ~(lo <= c.angle /\ c.angle <= hi)
     THEN Exit(c, 1, "range")
     ELSE LET c1 == [c EXCEPT !.reg = angle_reg(c.angle, err),
                              !.written = TRUE]
          IN IF ~w THEN Exit(c1, 1, "write")
             ELSE [c1 EXCEPT !.pc = IF c.comando = "finestra"
                                    THEN "poll" ELSE "lock_read",
                             !.elapsed = 0]

\* One iteration of the poll loop of set_window_angle: the timeout test,
\* one read of register 1 (None: the read failed), the tolerance test.
poll_position(c, ans) ==
  IF c.elapsed > timeout * 10
  THEN Exit(c, 1, "timeout")
  ELSE IF ans = None
  THEN [c EXCEPT !.readback = None, !.elapsed = @ + read_retry_sleep]
  ELSE IF Abs(current_angle(ans) - c.angle) <= LEAF_TOLERANCE * 10
  THEN Exit([c EXCEPT !.readback = ans], 0, "reached")
  ELSE [c EXCEPT !.readback = ans, !.elapsed = @ + poll_sleep]

\* set_lock_angle after the write: one read of register 3 a second later.
lock_read(c, ans) ==
  LET c1 == [c EXCEPT !.elapsed = @ + lock_sleep, !.readback = ans] IN
  IF ans = None
  THEN Exit(c1, 1, "read")
  ELSE IF Abs(current_angle(ans) - c.angle) <= LOCK_TOLERANCE * 10
  THEN Exit(c1, 0, "reached")
  ELSE Exit(c1, 1, "off")

\* ------------------------------------------------------------------- state
VARIABLES
  now,        \* the wall clock, in seconds
  impl,       \* which detector runs: "app" or "headless"
  wc,         \* the WindowController's fields
  app,        \* CatDetectorApp's presence state
  cb,         \* HeadlessCatDetectorCallback's presence state
  last,       \* the operation of the latest step: inputs, result, wire
              \* traffic; Idle when the latest step was the clock's
  flight,     \* per thread, the transport command it is waiting for
  hist,       \* what the detection filter has been fed so far
  cli         \* one run of the cat_window.py tool, step by step

vars == <<now, impl, wc, app, cb, last, flight, hist, cli>>

Last(op, should, angle, manual, present, r) ==
  [op |-> op, should |-> should, angle |-> angle, manual |-> manual,
   present |-> present, ret |-> r.ret, cmds |-> r.cmds,
   wire |-> r.wire, branch |-> r.branch, notify |-> r.notify]

Idle == Last("idle", FALSE, 0, FALSE, FALSE, NoCall(WcInit))

\* The two threads that call the shared WindowController: the GStreamer
\* streaming thread (frame callback) and the Telegram bot thread.
Threads == {"frame", "telegram"}

NoFlight == [busy |-> FALSE, should |-> FALSE, manual |-> FALSE, t |-> 0]

NoFlights == [th \in Threads |-> NoFlight]

\* History of the detection filter: the time of the latest qualifying
\* detection, whether a call since then returned False, and whether the
\* latest call carried a qualifying detection.
NoHist == [lastq |-> None, flicker |-> FALSE, qualified |-> FALSE]

Init ==
  /\ now = 0
  /\ impl \in {"app", "headless"}
  /\ wc = WcInit
  /\ app = AppInit
  /\ cb = CbInit
  /\ last = Idle
  /\ flight = NoFlights
  /\ hist = NoHist
  /\ cli = CliIdle

\* Bookkeeping shared by every operation that may reach the controller:
\* r is the controller result, dur the time the caller was blocked.
Finish(op, should, angle, manual, present, r, dur, lim) ==
  /\ now + dur <= lim
  /\ now' = now + dur
  /\ wc' = r.wc
  /\ last' = Last(op, should, angle, manual, present, r)
  /\ UNCHANGED <<flight, hist, cli>>

Durations == 0..MaxCmdDur

\* A controller call R (a function of what the transport answers): when
\* it runs no command it returns at once whatever the transport would do,
\* otherwise the transport answers one of envs and the caller is blocked
\* for some time.
Call(op, should, angle, manual, R, envs, lim) ==
  IF R[OkEnv].cmds = <<>>
  THEN Finish(op, should, angle, manual, FALSE, R[OkEnv], 0, lim)
  ELSE \E env \in envs, dur \in Durations :
         Finish(op, should, angle, manual, FALSE, R[env], dur, lim)

\* The clock advances between operations.
Advance(lim) ==
  /\ now < lim
  /\ now' = now + 1
  /\ last' = Idle
  /\ UNCHANGED <<impl, wc, app, cb, flight, hist, cli>>

\* CatDetectorApp.process_frame on a frame carrying one sample.
FrameApp(sample, envs, lim) ==
  /\ impl = "app"
  /\ LET current_threshold == get_current_confidence_threshold(wc)
         cat_detected_in_roi == /\ sample.label = "cat"
                                /\ sample.conf >= current_threshold
                                /\ is_within_roi(sample.x)
         f == update_detection_filter(app.recent_detections,
                                      cat_detected_in_roi, now,
                                      detection_filter_window)
         a1 == [app EXCEPT !.recent_detections = f.recent_detections]
         P(env) == process_cat_detection(a1, wc, f.present, now, env)
     IN /\ Cardinality({i \in DOMAIN f.recent_detections :
                           f.recent_detections[i] = now}) <= MaxPerSecond
        /\ IF P(OkEnv).r.cmds = <<>>
           THEN /\ app' = P(OkEnv).det
                /\ Finish("frame", FALSE, 0, FALSE, f.present,
                          P(OkEnv).r, 0, lim)
           ELSE \E env \in envs, dur \in Durations :
                  /\ app' = P(env).det
                  /\ Finish("frame", FALSE, 0, FALSE, f.present,
                            P(env).r, dur, lim)
  /\ UNCHANGED <<impl, cb>>

\* headless_detection.app_callback on a frame carrying one sample.
FrameHeadless(sample, envs, lim) ==
  /\ impl = "headless"
  /\ LET current_threshold == cb_get_current_confidence_threshold(wc)
         cat_detected == /\ sample.label = "cat"
                         /\ sample.conf >= current_threshold
         f == update_detection_filter(cb.recent_detections, cat_detected,
                                      now, cb_detection_filter_window)
         c1 == [cb EXCEPT !.recent_detections = f.recent_detections]
         P(env) == cb_process_cat_detection(c1, wc, f.present, now, env)
     IN /\ Cardinality({i \in DOMAIN f.recent_detections :
                           f.recent_detections[i] = now}) <= MaxPerSecond
        /\ IF P(OkEnv).r.cmds = <<>>
           THEN /\ cb' = P(OkEnv).det
                /\ Finish("frame", FALSE, 0, FALSE, f.present,
                          P(OkEnv).r, 0, lim)
           ELSE \E env \in envs, dur \in Durations :
                  /\ cb' = P(env).det
                  /\ Finish("frame", FALSE, 0, FALSE, f.present,
                            P(env).r, dur, lim)
  /\ UNCHANGED <<impl, app>>

\* TelegramCommands._open_command (/apri).
OpenCommand(envs, lim) ==
  /\ LET R == [env \in envs |-> set_window_position(wc, TRUE, TRUE, now, env)]
     IN Call("set_window_position", TRUE, 0, TRUE, R, envs, lim)
  /\ UNCHANGED <<impl, app, cb>>

\* TelegramCommands._close_command (/chiudi).
CloseCommand(envs, lim) ==
  /\ LET R == [env \in envs |-> set_window_position(wc, FALSE, TRUE, now, env)]
     IN Call("set_window_position", FALSE, 0, TRUE, R, envs, lim)
  /\ UNCHANGED <<impl, app, cb>>

\* TelegramCommands._auto_command (/auto).
AutoCommand(lim) ==
  /\ wc.manual_mode
  /\ Finish("enable_auto_control", FALSE, 0, FALSE, FALSE,
            NoCall(enable_auto_control(wc)), 0, lim)
  /\ UNCHANGED <<impl, app, cb>>

\* TelegramCommands._manual_command (/manuale).
ManualCommand(lim) ==
  /\ ~wc.manual_mode
  /\ Finish("disable_auto_control", FALSE, 0, FALSE, FALSE,
            NoCall(disable_auto_control(wc)), 0, lim)
  /\ UNCHANGED <<impl, app, cb>>

\* A direct call of WindowController.set_window_position.
SetWindowPosition(should_be_open, manual, envs, lim) ==
  /\ LET R == [env \in envs |-> set_window_position(wc, should_be_open, manual, now, env)]
     IN Call("set_window_position", should_be_open, 0, manual, R, envs, lim)
  /\ UNCHANGED <<impl, app, cb>>

\* A direct call of WindowController.set_lock_position.
SetLockPosition(should_be_locked, manual, envs, lim) ==
  /\ LET R == [env \in envs |-> set_lock_position(wc, should_be_locked, manual, now, env)]
     IN Call("set_lock_position", should_be_locked, 0, manual, R, envs, lim)
  /\ UNCHANGED <<impl, app, cb>>

Angles == {76, 80, 100, 121}

\* A direct call of WindowController.set_window_angle.
SetWindowAngle(angle, manual, envs, lim) ==
  /\ LET R == [env \in envs |-> set_window_angle(wc, angle, manual, now, env)]
     IN Call("set_window_angle", FALSE, angle, manual, R, envs, lim)
  /\ UNCHANGED <<impl, app, cb>>

Next ==
  \/ Advance(MaxTime)
  \/ \E s \in Samples : FrameApp(s, Env, MaxTime)
  \/ \E s \in Samples : FrameHeadless(s, Env, MaxTime)
  \/ AutoCommand(MaxTime)
  \/ ManualCommand(MaxTime)

\* The detector on an unreliable transport, with the operator switching
\* between automatic and manual mode.
Spec == Init /\ [][Next]_vars

\* Automatic operation with a transport that always succeeds: only the
\* clock and the frame callbacks act.
NextAuto ==
  \/ Advance(MaxAutoTime)
  \/ \E s \in Samples : FrameApp(s, {OkEnv}, MaxAutoTime)
  \/ \E s \in Samples : FrameHeadless(s, {OkEnv}, MaxAutoTime)

SpecAuto == Init /\ [][NextAuto]_vars

\* The WindowController driven on its own: the Telegram commands and its
\* public methods called in any order by any caller.
ApiEnv == Env \cup {InterruptedEnv}

NextApi ==
  \/ Advance(MaxApiTime)
  \/ \E a \in Angles, m \in BOOLEAN :
       SetWindowAngle(a, m, ApiEnv, MaxApiTime)
  \/ \E l \in BOOLEAN, m \in BOOLEAN :
       SetLockPosition(l, m, ApiEnv, MaxApiTime)
  \/ \E o \in BOOLEAN : SetWindowPosition(o, FALSE, ApiEnv, MaxApiTime)
  \/ OpenCommand(ApiEnv, MaxApiTime)
  \/ CloseCommand(ApiEnv, MaxApiTime)
  \/ AutoCommand(MaxApiTime)
  \/ ManualCommand(MaxApiTime)

SpecApi == Init /\ [][NextApi]_vars

\* The frame callback reaches set_window_position(should_be_open,
\* manual=False) on the streaming thread; the thread then waits for the
\* command it started.
EnterAuto(should_be_open) ==
  /\ ~flight["frame"].busy
  /\ auto_control_enabled(wc)
  /\ LET e == set_window_position_enter(wc, should_be_open, FALSE, now)
     IN /\ wc' = e.wc
        /\ last' = Last("enter", should_be_open, 0, FALSE, FALSE, e)
        /\ flight' = IF e.branch = "exec"
                      THEN [flight EXCEPT !["frame"] =
                              [busy |-> TRUE, should |-> should_be_open,
                               manual |-> FALSE, t |-> now]]
                      ELSE flight
  /\ UNCHANGED <<now, impl, app, cb, hist, cli>>

\* /apri or /chiudi reaches set_window_position(should_be_open,
\* manual=True) on the Telegram bot thread.
EnterManual(should_be_open) ==
  /\ ~flight["telegram"].busy
  /\ LET e == set_window_position_enter(wc, should_be_open, TRUE, now)
     IN /\ wc' = e.wc
        /\ last' = Last("enter", should_be_open, 0, TRUE, FALSE, e)
        /\ flight' = IF e.branch = "exec"
                      THEN [flight EXCEPT !["telegram"] =
                              [busy |-> TRUE, should |-> should_be_open,
                               manual |-> TRUE, t |-> now]]
                      ELSE flight
  /\ UNCHANGED <<now, impl, app, cb, hist, cli>>

\* The command a thread was waiting for ends and set_window_position
\* returns on that thread.
Return(th, env) ==
  /\ flight[th].busy
  /\ LET f == flight[th]
         r == set_window_position_return(wc, f.should, f.t, env)
     IN /\ wc' = r.wc
        /\ last' = Last("return", f.should, 0, f.manual, FALSE, r)
  /\ flight' = [flight EXCEPT ![th] = NoFlight]
  /\ UNCHANGED <<now, impl, app, cb, hist, cli>>

\* The frame callback and the Telegram commands on their two threads,
\* sharing one WindowController.
NextConc ==
  \/ Advance(MaxConcTime)
  \/ \E o \in BOOLEAN : EnterAuto(o)
  \/ \E o \in BOOLEAN : EnterManual(o)
  \/ \E th \in Threads, env \in Env : Return(th, env)

SpecConc == Init /\ [][NextConc]_vars

\* set_window_angle reaches the end of its nested unlock.  The nested
\* set_lock_position takes its own datetime.now() after the one of
\* set_window_angle: counted in whole seconds it is the same second or,
\* when the second changes between the two readings, the next one.  The
\* arguments of the pending call stay in last, its current_time in
\* flight.
AngleEnter(angle, manual, envs) ==
  /\ ~flight["telegram"].busy
  /\ \E tick \in IF wc.is_window_locked THEN {0, 1} ELSE {0},
        env \in envs :
       LET e == set_window_angle_unlock(wc, angle, manual, now, now + tick,
                                        env)
       IN /\ now + tick <= MaxAngleTime
          /\ e.cmds = <<>> => (tick = 0 /\ env = OkEnv)
          /\ now' = now + tick
          /\ wc' = e.wc
          /\ last' = Last("enter", FALSE, angle, manual, FALSE, e)
          /\ flight' = IF e.branch = "exec"
                        THEN [flight EXCEPT !["telegram"] =
                                [busy |-> TRUE, should |-> FALSE,
                                 manual |-> manual, t |-> now]]
                        ELSE flight
  /\ UNCHANGED <<impl, app, cb, hist, cli>>

\* The leaf command of the pending set_window_angle ends and the call
\* returns.
AngleReturn(envs) ==
  /\ flight["telegram"].busy
  /\ \E env \in envs :
       LET f == flight["telegram"]
           r == set_window_angle_move(wc, last.angle, f.t, env)
       IN /\ wc' = r.wc
          /\ last' = Last("return", FALSE, last.angle, f.manual, FALSE, r)
  /\ flight' = [flight EXCEPT !["telegram"] = NoFlight]
  /\ UNCHANGED <<now, impl, app, cb, hist, cli>>

\* One caller at a time: set_window_angle in two steps, the other two
\* methods and the clock between two calls.
NextAngle ==
  \/ \E a \in Angles, m \in BOOLEAN : AngleEnter(a, m, Env)
  \/ AngleReturn(Env)
  \/ ~flight["telegram"].busy /\ Advance(MaxAngleTime)
  \/ \E o \in BOOLEAN :
       /\ ~flight["telegram"].busy
       /\ SetWindowPosition(o, FALSE, {OkEnv}, MaxAngleTime)
  \/ \E l \in BOOLEAN :
       /\ ~flight["telegram"].busy
       /\ SetLockPosition(l, FALSE, {OkEnv}, MaxAngleTime)

SpecAngle == Init /\ [][NextAngle]_vars

\* The detection filter of the detector that runs, and its window.
recent_detections == IF impl = "app" THEN app.recent_detections
                     ELSE cb.recent_detections

filter_window == IF impl = "app" THEN detection_filter_window
                 ELSE cb_detection_filter_window

\* One call of update_detection_filter at the current time, on a frame
\* that carries a qualifying detection or not.
Filter(cat_detected) ==
  /\ LET f == update_detection_filter(recent_detections, cat_detected, now,
                                      filter_window)
     IN /\ Cardinality({i \in DOMAIN f.recent_detections :
                           f.recent_detections[i] = now}) <= MaxPerSecond
        /\ IF impl = "app"
           THEN /\ app' = [app EXCEPT
                             !.recent_detections = f.recent_detections]
                /\ cb' = cb
           ELSE /\ cb' = [cb EXCEPT
                            !.recent_detections = f.recent_detections]
                /\ app' = app
        /\ last' = Last("filter", FALSE, 0, FALSE, f.present, NoCall(wc))
        /\ hist' = [lastq |-> IF cat_detected THEN now ELSE hist.lastq,
                    flicker |-> ~cat_detected
                                /\ (hist.flicker \/ ~f.present),
                    qualified |-> cat_detected]
  /\ UNCHANGED <<now, impl, wc, flight, cli>>

\* The detection filter alone, fed any sequence of frames.
NextFilter ==
  \/ Advance(MaxFilterTime)
  \/ \E q \in BOOLEAN : Filter(q)

SpecFilter == Init /\ [][NextFilter]_vars

\* The command lines the tool is started with: angles in hundredths of a
\* degree, inside and outside the ranges.
CliArgs ==
  [comando : {"finestra"}, angle : {7690, 7700, 7705, 12000, 13510}]
  \cup [comando : {"serratura"}, angle : {0, 9000, 9010}]

\* What a read of a position register may answer: nothing, the setpoint,
\* or 90.0 degrees (where a stuck leaf stays).
Readbacks == {None, cli.reg, 900}

NoCli == UNCHANGED <<now, impl, wc, app, cb, last, flight, hist>>

\* A new process runs cat_window.py (none is running).
CliStart(a) ==
  /\ cli.pc \in {"idle", "done"}
  /\ cli' = [CliIdle EXCEPT !.pc = "connect", !.comando = a.comando,
                            !.angle = a.angle]
  /\ NoCli

UsbOutcomes == {"done", "failed", "raised"}

CliConnect ==
  /\ cli.pc = "connect"
  /\ \E ok \in BOOLEAN, usb \in UsbOutcomes :
       cli' = connect_with_retry(cli, ok, usb)
  /\ NoCli

CliCommand ==
  /\ cli.pc = "command"
  /\ \E w \in BOOLEAN, err \in {-1, 0, 1} : cli' = main_command(cli, w, err)
  /\ NoCli

CliPoll ==
  /\ cli.pc = "poll"
  /\ \E ans \in Readbacks : cli' = poll_position(cli, ans)
  /\ NoCli

CliLockRead ==
  /\ cli.pc = "lock_read"
  /\ \E ans \in Readbacks : cli' = lock_read(cli, ans)
  /\ NoCli

\* KeyboardInterrupt while the tool waits for the actuator: it is not an
\* Exception, so main's except clause is skipped, the finally clause runs
\* and the process ends with a non-zero status.
CliInterrupt ==
  /\ cli.pc \in {"poll", "lock_read"}
  /\ cli' = Exit(cli, 130, "interrupt")
  /\ NoCli

NextCli ==
  \/ \E a \in CliArgs : CliStart(a)
  \/ CliConnect
  \/ CliCommand
  \/ CliPoll
  \/ CliLockRead
  \/ CliInterrupt

\* One run of the tool after another.  A started process keeps running:
\* every call it blocks in returns (the serial client has a timeout) and
\* every sleep ends.
SpecCli ==
  /\ Init
  /\ [][NextCli]_vars
  /\ WF_vars(CliConnect)
  /\ WF_vars(CliCommand)
  /\ WF_vars(CliPoll)
  /\ WF_vars(CliLockRead)

\* The angles the encoding is applied to, in hundredths of a degree: every
\* twentieth of a degree of the range of the command.
CodecAngles(comando) ==
  LET lo == IF comando = "finestra" THEN 77 * 100 ELSE 0
      hi == IF comando = "finestra" THEN CLI_MAX_ANGLE * 100 ELSE 90 * 100
  IN {a \in lo..hi : a % 5 = 0}

\* The setpoint of one command is encoded for the register.
Encode(comando, angle, err) ==
  /\ cli.pc = "idle"
  /\ cli' = [CliIdle EXCEPT !.pc = "encoded", !.comando = comando,
                            !.angle = angle, !.reg = angle_reg(angle, err)]
  /\ NoCli

NextCodec ==
  \E comando \in {"finestra", "serratura"}, err \in {-1, 0, 1} :
    \E angle \in CodecAngles(comando) : Encode(comando, angle, err)

\* The register encoding alone, applied to every angle of the ranges.
SpecCodec == Init /\ [][NextCodec]_vars

\* Frames that carry detections arrive before QuietFrom only; from then
\* on every frame is empty.
QuietOr(sample) == now < QuietFrom \/ sample = NoDetection

\* The pipeline delivers at least one frame per second: the clock step
\* follows a frame.
FrameThenAdvance == last.op = "frame" /\ Advance(MaxLiveTime)

\* Automatic operation with a transport that always succeeds: until
\* QuietFrom the frames carry anything and the controller's methods are
\* called with manual=False in any order; afterwards only empty frames
\* arrive.
NextLive ==
  \/ FrameThenAdvance
  \/ \E s \in Samples : QuietOr(s) /\ FrameApp(s, {OkEnv}, MaxLiveTime)
  \/ \E s \in Samples : QuietOr(s) /\ FrameHeadless(s, {OkEnv}, MaxLiveTime)
  \/ /\ now < QuietFrom
     /\ \E o \in BOOLEAN : SetWindowPosition(o, FALSE, {OkEnv}, MaxLiveTime)
  \/ /\ now < QuietFrom
     /\ \E l \in BOOLEAN : SetLockPosition(l, FALSE, {OkEnv}, MaxLiveTime)
  \/ /\ now < QuietFrom
     /\ \E a \in Angles : SetWindowAngle(a, FALSE, {OkEnv}, MaxLiveTime)

\* The clock runs and the pipeline keeps delivering frames.
SpecLive ==
  /\ Init
  /\ [][NextLive]_vars
  /\ SF_vars(FrameThenAdvance)
  /\ WF_vars(FrameApp(NoDetection, {OkEnv}, MaxLiveTime))
  /\ WF_vars(FrameHeadless(NoDetection, {OkEnv}, MaxLiveTime))

TypeOK ==
  /\ now \in 0..MaxAutoTime
  /\ impl \in {"app", "headless"}
  /\ wc.manual_mode \in BOOLEAN
  /\ last.ret \in BOOLEAN

\* ------------------------------------------------------------------ claims
\* The presence timers of the detector that runs.
detection_since == IF impl = "app" THEN app.current_detection_time
                   ELSE cb.last_cat_time

absence_since == IF impl = "app" THEN app.current_no_detection_time
                 ELSE cb.last_no_cat_time

\* The cooldown rule as section 4.3 of the design states it, at the time
\* of a call made in the current state.
WithinCooldown ==
  wc.last_command_time # None /\ now - wc.last_command_time < command_cooldown

\* C1: in automatic mode with a transport that succeeds, a frame with
\* debounced presence issues exactly one open command when the window is
\* closed and presence has lasted required_detection_time, nothing before
\* that, and nothing at all while the window is open (no further open
\* until a close has intervened).
C1_OpenOnce ==
  [][(last'.op = "frame" /\ last'.present) =>
       /\ (~wc.is_window_open
           /\ now - detection_since' >= required_detection_time)
          => (last'.cmds = <<"apri">> /\ last'.ret /\ wc'.is_window_open)
       /\ now - detection_since' < required_detection_time
          => (last'.cmds = <<>> /\ last'.wire = <<>>)
       /\ wc.is_window_open => (last'.cmds = <<>> /\ last'.wire = <<>>)]_vars

\* C1 witness: the window was opened by an open command, its cooldown
\* has expired, presence has gone on past the dwell time, and the frame
\* just processed issued nothing.
C1_Witness ==
  /\ last.op = "frame" /\ last.present /\ last.cmds = <<>>
  /\ wc.is_window_open
  /\ now - wc.last_command_time >= command_cooldown
  /\ now - detection_since >= required_detection_time

\* C2 as stated: with the window open, the first frame with debounced
\* absence of at least required_no_detection_time issues a close command.
C2_CloseAtFirstQualifyingTick ==
  [][(/\ last'.op = "frame" /\ ~last'.present
      /\ wc.is_window_open
      /\ now - absence_since' >= required_no_detection_time)
     => last'.cmds = <<"chiudi">>]_vars

\* C2 amended: with the window open, a frame with debounced absence of at
\* least required_no_detection_time issues exactly one close command if
\* command_cooldown has elapsed since last_command_time and none if it
\* has not; no frame issues a close before that or while the window is
\* closed.
C2_CloseOnceAfterCooldown ==
  [][(last'.op = "frame" /\ ~last'.present) =>
       /\ (/\ wc.is_window_open
           /\ now - absence_since' >= required_no_detection_time
           /\ ~WithinCooldown)
          => (last'.cmds = <<"chiudi">> /\ last'.ret /\ ~wc'.is_window_open)
       /\ (wc.is_window_open /\ WithinCooldown)
          => (last'.cmds = <<>> /\ last'.wire = <<>>)
       /\ now - absence_since' < required_no_detection_time
          => (last'.cmds = <<>> /\ last'.wire = <<>>)
       /\ ~wc.is_window_open => (last'.cmds = <<>> /\ last'.wire = <<>>)]_vars

\* C2 witness: a frame with debounced absence has just closed the window.
C2_Witness ==
  /\ last.op = "frame" /\ ~last.present
  /\ last.cmds = <<"chiudi">> /\ last.ret
  /\ ~wc.is_window_open

\* C3: at most one of detection_since and absence_since is non-null, in
\* both detectors, in automatic and in manual mode.
C3_OneTimer ==
  /\ ~(app.current_detection_time # None
       /\ app.current_no_detection_time # None)
  /\ ~(cb.last_cat_time # None /\ cb.last_no_cat_time # None)

\* C3 witness: CatDetectorApp has just processed a frame with presence a
\* while after it had started counting an absence.
C3_Witness ==
  /\ impl = "app" /\ last.op = "frame" /\ last.present
  /\ app.current_detection_time # None
  /\ app.current_detection_time >= required_no_detection_time
  /\ app.current_no_detection_time = None

\* The controller operations that can run a transport command.
ControllerOps == {"set_window_position", "set_lock_position",
                  "set_window_angle"}

\* A transport command of the operation recorded in l reported failure:
\* the tool could not connect, or a write or a confirmation failed.
TransportFailed(l) ==
  /\ l.cmds # <<>>
  /\ \/ l.wire = <<>>
     \/ \E i \in DOMAIN l.wire : ~l.wire[i].ok

\* Every transport command of the operation recorded in l succeeded.
TransportSucceeded(l) ==
  /\ l.cmds # <<>>
  /\ l.wire # <<>>
  /\ \A i \in DOMAIN l.wire : l.wire[i].ok

\* C4: a set_window_position call made before command_cooldown has
\* elapsed since last_command_time returns false, performs no wire
\* transaction and leaves the ActuatorState unchanged (so a call within
\* 5 s of a command that was issued causes no second wire transaction).
C4_CooldownRejects ==
  [][(last'.op = "set_window_position" /\ WithinCooldown)
     => /\ ~last'.ret
        /\ last'.cmds = <<>> /\ last'.wire = <<>>
        /\ wc' = wc]_vars

\* C4 witness: a manual request was rejected within the cooldown of an
\* earlier command.
C4_Witness ==
  /\ last.op = "set_window_position" /\ last.manual
  /\ ~last.ret /\ last.cmds = <<>>
  /\ wc.last_command_time # None
  /\ now - wc.last_command_time < command_cooldown

\* C5: an automatic set_window_position request whose target equals the
\* current is_open value returns false, performs no wire transaction and
\* changes no field of the ActuatorState.
C5_AutomaticNoOp ==
  [][(/\ last'.op = "set_window_position" /\ ~last'.manual
      /\ last'.should = wc.is_window_open)
     => /\ ~last'.ret
        /\ last'.cmds = <<>> /\ last'.wire = <<>>
        /\ wc' = wc]_vars

\* C5 witness: an automatic open request on an open window, outside the
\* cooldown, was a no-op.
C5_Witness ==
  /\ last.op = "set_window_position" /\ ~last.manual /\ last.should
  /\ wc.is_window_open
  /\ ~last.ret /\ last.cmds = <<>>
  /\ now - wc.last_command_time >= command_cooldown

\* C6 as stated: a manual set_window_position call runs its transport
\* command in every reachable ActuatorState.
C6_ManualAlwaysExecutes ==
  [][(last'.op = "set_window_position" /\ last'.manual)
     => last'.cmds = <<IF last'.should THEN "apri" ELSE "chiudi">>]_vars

\* C6 amended: a manual set_window_position call made once
\* command_cooldown has elapsed since last_command_time runs its
\* transport command whether or not the requested state equals the
\* current one; within the cooldown it is rejected like any other call.
C6_ManualExecutesOutsideCooldown ==
  [][(last'.op = "set_window_position" /\ last'.manual)
     => IF WithinCooldown
        THEN last'.cmds = <<>> /\ ~last'.ret
        ELSE last'.cmds = <<IF last'.should THEN "apri" ELSE "chiudi">>]_vars

\* C6 witness: a manual close of a window that was already closed ran
\* the close command (which failed, so the window is still recorded as
\* it was).
C6_Witness ==
  /\ last.op = "set_window_position" /\ last.manual /\ ~last.should
  /\ last.cmds = <<"chiudi">> /\ ~last.ret
  /\ ~wc.is_window_open /\ wc.is_window_locked

\* The unlock was written and confirmed before position j of wire log w.
UnlockConfirmedBefore(w, j) ==
  \E i \in 1..(j - 1) :
    /\ w[i].rw = "R" /\ w[i].reg = 3 /\ w[i].ok
    /\ Abs(w[i].val - 900) <= 50
    /\ \E k \in 1..(i - 1) :
         w[k].rw = "W" /\ w[k].reg = 2 /\ w[k].val = 900 /\ w[k].ok

\* C7: whenever a controller operation changes the leaf angle while the
\* window is locked, the unlock has been written and confirmed before
\* the leaf setpoint is written (and without it no leaf setpoint is
\* written at all).
C7_UnlockBeforeLeafMoves ==
  [][(last'.op \in ControllerOps /\ wc.is_window_locked)
     => \A j \in DOMAIN last'.wire :
          (/\ last'.wire[j].rw = "W" /\ last'.wire[j].reg = 0
           /\ last'.wire[j].val # wc.current_angle * 10)
          => UnlockConfirmedBefore(last'.wire, j)]_vars

\* C8: in the closing sequence the lock register is written only after
\* the leaf setpoint 77 was written and read back within 0.1 degree; if
\* the leaf move fails or times out the lock register is not written.
C8_LeafClosedBeforeLock ==
  last.cmds = <<"chiudi">> =>
    \A j \in DOMAIN last.wire :
      (last.wire[j].rw = "W" /\ last.wire[j].reg = 2)
      => \E i \in 1..(j - 1) :
           /\ last.wire[i].rw = "R" /\ last.wire[i].reg = 1
           /\ last.wire[i].ok /\ Abs(last.wire[i].val - 770) <= 1
           /\ \E k \in 1..(i - 1) :
                /\ last.wire[k].rw = "W" /\ last.wire[k].reg = 0
                /\ last.wire[k].val = 770 /\ last.wire[k].ok

\* C8 witness: a close command whose leaf move timed out away from the
\* closed angle, after which nothing was written to the lock register.
C8_Witness ==
  /\ last.cmds = <<"chiudi">> /\ ~last.ret
  /\ \E i \in DOMAIN last.wire :
       /\ last.wire[i].rw = "R" /\ last.wire[i].reg = 1
       /\ ~last.wire[i].ok /\ Abs(last.wire[i].val - 770) > 1
  /\ \A j \in DOMAIN last.wire : last.wire[j].reg # 2

\* C9: when a transport step of set_window_position, set_lock_position
\* or set_window_angle fails, the call returns false and every field of
\* the ActuatorState keeps the value it had before the call.
C9_FailureLeavesStateUnchanged ==
  [][(last'.op \in ControllerOps /\ TransportFailed(last'))
     => (~last'.ret /\ wc' = wc)]_vars

\* C10: set_window_position returns true iff its transport command
\* reported success, and then the ActuatorState is the open and unlocked
\* (respectively closed and locked) configuration, with
\* last_command_time the time of the call.
C10_SuccessUpdatesState ==
  [][last'.op = "set_window_position"
     => /\ last'.ret <=> TransportSucceeded(last')
        /\ last'.ret =>
             /\ wc'.last_command_time = now
             /\ IF last'.should
                THEN /\ wc'.current_angle = 120 /\ wc'.target_angle = 120
                     /\ wc'.current_lock_angle = 90
                     /\ wc'.target_lock_angle = 90
                     /\ wc'.is_window_open /\ ~wc'.is_window_locked
                ELSE /\ wc'.current_angle = 77 /\ wc'.target_angle = 77
                     /\ wc'.current_lock_angle = 0
                     /\ wc'.target_lock_angle = 0
                     /\ ~wc'.is_window_open /\ wc'.is_window_locked]_vars

\* C10 witness: a close command that blocked its caller for a while has
\* just returned true.
C10_Witness ==
  /\ last.op = "set_window_position" /\ ~last.should /\ last.ret
  /\ last.cmds = <<"chiudi">>
  /\ now > wc.last_command_time

\* C11 as stated: at most one actuator command is in flight at any
\* time, however the frame callback's automatic command and the
\* Telegram thread's manual command interleave.
C11_OneCommandInFlight ==
  Cardinality({th \in Threads : flight[th].busy}) <= 1

\* C12 as stated: the frame callback never waits for actuator I/O; a
\* command it decides on is run elsewhere, so the step of a frame takes
\* no time and carries no wire traffic of its own.
C12_FrameNeverBlocks ==
  [][last'.op = "frame" => (now' = now /\ last'.wire = <<>>)]_vars

\* C13: while manual_mode is true a frame issues no command, sends no
\* notification and leaves detection_since, absence_since and every
\* field of the ActuatorState unchanged, whatever it carries.
C13_ManualModeNoOp ==
  [][(last'.op = "frame" /\ wc.manual_mode)
     => /\ last'.cmds = <<>> /\ last'.wire = <<>> /\ last'.notify = <<>>
        /\ wc' = wc
        /\ detection_since' = detection_since
        /\ absence_since' = absence_since]_vars

\* C13 witness: in manual mode a frame with debounced presence was
\* processed when the presence counted from detection_since had already
\* lasted required_detection_time, and nothing was issued.
C13_Witness ==
  /\ last.op = "frame" /\ last.present /\ last.cmds = <<>>
  /\ wc.manual_mode
  /\ detection_since # None
  /\ now - detection_since >= required_detection_time

\* C14 as stated: a frame that follows, with no time in between, a frame
\* whose automatic command failed at the transport issues no command
\* (the cooldown has not expired).
C14_NoImmediateRetry ==
  [][(last.op = "frame" /\ TransportFailed(last) /\ last'.op = "frame")
     => last'.cmds = <<>>]_vars

\* C15 as stated: a frame whose automatic open or close failed at the
\* transport sends an error event to the notifier.
C15_FailureReported ==
  [][(last'.op = "frame" /\ TransportFailed(last'))
     => \E i \in DOMAIN last'.notify : last'.notify[i].kind = "error"]_vars

\* C20: a frame never sets or clears manual_mode, and it changes the
\* ActuatorState only when the controller ran a command that succeeded
\* at the transport, and then to the open or the closed configuration
\* stamped with the time of the call.
C20_OnlyThroughController ==
  [][last'.op = "frame"
     => /\ wc'.manual_mode = wc.manual_mode
        /\ wc' # wc
           => /\ last'.ret /\ TransportSucceeded(last')
              /\ \/ /\ last'.cmds = <<"apri">>
                    /\ wc' = [Opened(wc) EXCEPT !.last_command_time = now]
                 \/ /\ last'.cmds = <<"chiudi">>
                    /\ wc' = [Closed(wc) EXCEPT !.last_command_time = now]]_vars

\* C20 witness: a frame has just opened the window through the
\* controller, in automatic mode.
C20_Witness ==
  /\ last.op = "frame" /\ last.ret /\ last.cmds = <<"apri">>
  /\ wc.is_window_open /\ ~wc.manual_mode

\* C16 as stated: when a qualifying detection comes at most
\* filter_window after the one before it, no call in between has
\* returned False.
C16_NoFlicker ==
  [][(/\ last'.op = "filter" /\ hist'.qualified
      /\ hist.lastq # None
      /\ now - hist.lastq <= filter_window)
     => ~hist.flicker]_vars

\* C17: after every update_detection_filter call, qualifying or not,
\* every timestamp kept is >= now - filter_window, the timestamps are in
\* non-decreasing order, and each of them was already in the window or
\* is the time of this call, which then carried a qualifying detection.
C17_WindowPruned ==
  [][last'.op = "filter"
     => /\ \A i \in DOMAIN recent_detections' :
             /\ recent_detections'[i] >= now - filter_window
             /\ \/ \E k \in DOMAIN recent_detections :
                     recent_detections[k] = recent_detections'[i]
                \/ (recent_detections'[i] = now /\ hist'.qualified)
        /\ \A i, j \in DOMAIN recent_detections' :
             i <= j => recent_detections'[i] <= recent_detections'[j]
        /\ hist'.qualified
           => recent_detections'[Len(recent_detections')] = now]_vars

\* C17 witness: a call without a qualifying detection has emptied a
\* window whose latest detection had become filter_window old.
C17_Witness ==
  /\ last.op = "filter" /\ ~hist.qualified
  /\ hist.lastq # None /\ now - hist.lastq >= filter_window
  /\ recent_detections = <<>>

\* C18 as stated: update_detection_filter returns True iff a qualifying
\* detection occurred within the trailing filter_window ending at now
\* (now - t <= filter_window for the latest one).
C18_TrueIffWithinWindow ==
  [][last'.op = "filter"
     => (last'.present
         <=> (hist'.lastq # None
              /\ now - hist'.lastq <= filter_window))]_vars

\* C19 as stated: on a closed window, while the latest qualifying
\* detection is no more than 8 s after detection_since, no frame issues
\* a command; a frame with debounced absence resets detection_since.
C19_NoCommandAfterEightSeconds ==
  [][(last'.op = "frame" /\ ~wc.is_window_open) =>
       /\ (/\ last'.present
           /\ recent_detections'[Len(recent_detections')]
                - detection_since' <= 8)
          => last'.cmds = <<>>
       /\ ~last'.present
          => (detection_since' = None /\ last'.cmds = <<>>)]_vars

\* C19 amended: on a closed window, while the latest qualifying
\* detection is no more than required_detection_time - filter_window
\* after detection_since, no frame issues a command; a frame with
\* debounced absence resets detection_since and issues nothing.
C19_NoCommandWhenPresenceEndsEarly ==
  [][(last'.op = "frame" /\ ~wc.is_window_open) =>
       /\ (/\ last'.present
           /\ recent_detections'[Len(recent_detections')]
                - detection_since' <= required_detection_time - filter_window)
          => (last'.cmds = <<>> /\ last'.wire = <<>>)
       /\ ~last'.present
          => /\ detection_since' = None
             /\ last'.cmds = <<>> /\ last'.wire = <<>>]_vars

\* C19 witness: the detections stopped required_detection_time -
\* filter_window after detection_since, and a later frame, with the
\* debounced presence still true, issued nothing.
C19_Witness ==
  /\ last.op = "frame" /\ last.present /\ last.cmds = <<>>
  /\ ~wc.is_window_open
  /\ detection_since # None
  /\ recent_detections[Len(recent_detections)] < now
  /\ recent_detections[Len(recent_detections)] - detection_since
       = required_detection_time - filter_window

\* The leaf poll of the operation recorded in l ended without the leaf
\* within tolerance: the readback stayed off, or no read was answered,
\* until the timeout.
LeafPollTimedOut(l) ==
  \E i \in DOMAIN l.wire :
    l.wire[i].rw = "R" /\ l.wire[i].reg = 1 /\ ~l.wire[i].ok

\* The poll loop of the tool always ends: within tolerance, or at the
\* first timeout test after 30 s.
PollTerminates == (cli.pc = "poll") ~> (cli.pc = "done")

\* The poll loop ends with success exactly on a readback within 0.1
\* degree, and with failure only once more than 30 s have passed.
PollOutcome ==
  /\ cli.why = "reached" /\ cli.comando = "finestra"
       => /\ cli.exit = 0
          /\ Abs(current_angle(cli.readback) - cli.angle) <= 10
  /\ cli.why = "timeout" => cli.exit = 1 /\ cli.elapsed > timeout * 10
  /\ cli.pc = "poll" => cli.elapsed <= timeout * 10 + read_retry_sleep

\* C21: the leaf position poll always terminates, with success as soon as
\* the readback is within 0.1 degree of the target and otherwise with
\* failure after the 30 s timeout; when it times out, the controller call
\* returns false and every field of the ActuatorState keeps its value.
C21_TimeoutLeavesStateUnchanged ==
  [][(last'.op \in ControllerOps /\ LeafPollTimedOut(last'))
     => (~last'.ret /\ wc' = wc)]_vars

\* What connect_with_retry has done so far, in every state of a run.
ConnectBounded ==
  /\ cli.tries <= max_retries
  /\ cli.pc = "connect"
       => cli.tries = cli.attempt /\ cli.sleeps = cli.tries
          /\ cli.client = "unset"
  /\ cli.client \in {"open", "closed"}
       => cli.tries >= 1 /\ cli.sleeps = cli.tries - 1
  /\ cli.client = "none"
       => cli.tries = max_retries /\ cli.sleeps = max_retries - 1
          /\ cli.pc = "done" /\ cli.exit = 1
  /\ cli.tries >= 2 => cli.gap >= retry_delay * 10

\* C22: connect_with_retry makes at most max_retries (5) attempts, with
\* one sleep of retry_delay between two attempts and none after the last;
\* it returns the client at the first successful attempt and attempts
\* nothing more, returns no connection once the last attempt has failed,
\* and always terminates.
C22_BoundedRetry ==
  /\ []ConnectBounded
  /\ [][(cli.pc \notin {"idle", "connect"} /\ cli'.pc # "connect")
        => cli'.tries = cli.tries]_vars
  /\ ((cli.pc = "connect") ~> (cli.pc # "connect"))

\* Connected at the third attempt, after two sleeps.
C22_Witness ==
  cli.client = "open" /\ cli.tries = 3 /\ cli.sleeps = 2 /\ cli.gap = 25

\* The tool of the operation recorded in l exhausted its connection
\* attempts: a command was run and nothing went over the wire.
ConnectExhausted(l) == l.cmds # <<>> /\ l.wire = <<>>

\* C23: when the connection attempts are exhausted, only that operation
\* fails: the controller call returns false, the ActuatorState keeps every
\* field (so no cooldown starts), and a later call connects again from
\* the first attempt.
C23_ConnectFailureOnlyFailsCall ==
  [][(last'.op \in ControllerOps /\ ConnectExhausted(last'))
     => (~last'.ret /\ wc' = wc)]_vars

\* C24: set_window_angle with an angle outside [CLOSED_ANGLE, OPEN_ANGLE]
\* returns false without running any command (no connection, no register
\* write) and leaves every field of the ActuatorState unchanged.
C24_OutOfRangeRejected ==
  [][(last'.op = "set_window_angle"
      /\ ~(CLOSED_ANGLE <= last'.angle /\ last'.angle <= OPEN_ANGLE))
     => /\ ~last'.ret
        /\ last'.cmds = <<>> /\ last'.wire = <<>>
        /\ wc' = wc]_vars

\* C25: set_lock_position follows the rules of set_window_position: within
\* the cooldown it returns false and touches neither the wire nor the
\* state; an automatic request for the lock state the controller records
\* is a no-op; a manual request outside the cooldown runs its command even
\* for that state; on success the lock angles, is_window_locked and
\* last_command_time are updated and the leaf fields keep their values.
C25_LockFollowsSameRules ==
  [][last'.op = "set_lock_position"
     => /\ WithinCooldown
             => /\ ~last'.ret
                /\ last'.cmds = <<>> /\ last'.wire = <<>>
                /\ wc' = wc
        /\ (~WithinCooldown /\ ~last'.manual
            /\ last'.should = wc.is_window_locked)
             => /\ ~last'.ret
                /\ last'.cmds = <<>> /\ last'.wire = <<>>
                /\ wc' = wc
        /\ (~WithinCooldown /\ last'.manual)
             => last'.cmds = <<IF last'.should THEN "blocca"
                               ELSE "sblocca">>
        /\ last'.ret
             => /\ wc'.is_window_locked = last'.should
                /\ wc'.current_lock_angle =
                     (IF last'.should THEN LOCK_CLOSED ELSE LOCK_OPEN)
                /\ wc'.target_lock_angle = wc'.current_lock_angle
                /\ wc'.last_command_time = now
                /\ wc'.current_angle = wc.current_angle
                /\ wc'.target_angle = wc.target_angle
                /\ wc'.is_window_open = wc.is_window_open]_vars

\* A manual lock request ran 'blocca' with the window recorded open.
C25_Witness ==
  /\ last.op = "set_lock_position" /\ last.manual /\ last.should
  /\ last.ret /\ last.cmds = <<"blocca">>
  /\ wc.is_window_locked /\ wc.is_window_open
  /\ wc.current_angle = OPEN_ANGLE

\* The operation recorded in l wrote the setpoint register reg.
WritesSetpoint(l, reg) ==
  \E i \in DOMAIN l.wire :
    l.wire[i].rw = "W" /\ l.wire[i].reg = reg /\ l.wire[i].ok

\* C26: for the leaf (setpoint register 0) and for the lock (register 2)
\* separately, two controller operations that each send a command to the
\* same actuator are at least command_cooldown apart.  Two operations
\* with no clock step between them are at most MaxCmdDur apart.
C26_CommandsCooldownApart ==
  [][\A reg \in {0, 2} :
       (/\ last.op \in ControllerOps /\ last'.op \in ControllerOps
        /\ WritesSetpoint(last, reg) /\ WritesSetpoint(last', reg))
       => MaxCmdDur >= command_cooldown]_vars

\* The step appends the current time to the presence window of the
\* detector that runs.
Appended ==
  (IF impl = "app" THEN app'.recent_detections ELSE cb'.recent_detections)
  = update_detection_filter(recent_detections, TRUE, now,
                            filter_window).recent_detections

\* The two thresholds of the detector that runs, as the design gives them.
ClosedThreshold ==
  IF impl = "app" THEN min_confidence ELSE min_confidence_closed

OpenThreshold ==
  IF impl = "app" THEN (min_confidence * 8) \div 10 ELSE min_confidence_open

\* C27: the threshold depends on is_window_open only: a cat detection
\* (inside the region of interest) qualifies iff its confidence is at
\* least the closed threshold when the window is closed, and at least the
\* strictly lower open threshold when it is open.
C27_ThresholdByWindowState ==
  [][\A s \in Samples :
       (/\ s.label = "cat" /\ is_within_roi(s.x)
        /\ \/ FrameApp(s, {OkEnv}, MaxLiveTime)
           \/ FrameHeadless(s, {OkEnv}, MaxLiveTime))
       => /\ OpenThreshold < ClosedThreshold
          /\ Appended <=> s.conf >= (IF wc.is_window_open
                                     THEN OpenThreshold
                                     ELSE ClosedThreshold)]_vars

\* A frame found the window open and its detection qualified under the
\* open threshold.
C27_Witness ==
  /\ last.op = "frame" /\ last.cmds = <<>> /\ wc.is_window_open
  /\ wc.last_command_time < now
  /\ recent_detections # <<>>
  /\ recent_detections[Len(recent_detections)] = now

\* C28: a cat detection whose centre lies outside [left_boundary,
\* right_boundary] is never appended to the presence window, whatever its
\* confidence.
C28_OutsideRoiNeverContributes ==
  [][\A s \in Samples :
       (/\ s.label = "cat" /\ ~is_within_roi(s.x)
        /\ \/ FrameApp(s, Env, MaxTime)
           \/ FrameHeadless(s, Env, MaxTime))
       => ~Appended]_vars

\* C29: for every angle with at most one decimal digit in the range of
\* its actuator, the register value divided by ten is within 0.1 degree
\* of the angle, and the register value fits an unsigned 16-bit word.
C29_RoundTrip ==
  (cli.pc = "encoded" /\ cli.angle % 10 = 0)
    => /\ Abs(current_angle(cli.reg) - cli.angle) <= 10
       /\ cli.reg \in 0..(2^16 - 1)

\* The largest angle of the leaf, encoded from a product that came out
\* just below the exact one.
C29_Witness ==
  /\ cli.pc = "encoded" /\ cli.comando = "finestra"
  /\ cli.angle = CLI_MAX_ANGLE * 100 /\ cli.reg = CLI_MAX_ANGLE * 10

\* C30: in automatic mode, whatever state the controller has been brought
\* to, once the frames stay empty (so debounced presence becomes and stays
\* false) and with every transport command succeeding, the window is
\* eventually closed and locked and stays so.
C30_EventuallyClosedAndLocked ==
  <>[](~wc.manual_mode /\ ~wc.is_window_open /\ wc.is_window_locked
       /\ wc.current_angle = CLOSED_ANGLE)

\* C31: the presence timer is assigned only when it is null, on a tick
\* with debounced presence, and cleared only by a tick without it; the
\* absence timer symmetrically; no other step touches them, and a tick
\* that assigns or clears a timer runs no command (so alternating ticks
\* never run more than one command per transition).
C31_TimersAssignedOnlyWhenNull ==
  [][/\ detection_since' # detection_since
          => /\ last'.op = "frame"
             /\ \/ /\ detection_since = None /\ detection_since' = now
                   /\ last'.present
                \/ detection_since' = None /\ ~last'.present
     /\ absence_since' # absence_since
          => /\ last'.op = "frame"
             /\ \/ /\ absence_since = None /\ absence_since' = now
                   /\ ~last'.present
                \/ absence_since' = None /\ last'.present
     /\ (last'.op = "frame" /\ last'.cmds # <<>>)
          => /\ detection_since' = detection_since
             /\ absence_since' = absence_since]_vars

\* A tick with presence found the presence timer set by an earlier tick
\* and left it as it was.
C31_Witness ==
  /\ last.op = "frame" /\ last.present
  /\ detection_since # None /\ detection_since < now
  /\ absence_since = None

\* C32: a lock or unlock command is confirmed by polling the lock
\* readback until it is within 5 degrees of the target or the timeout has
\* elapsed: the command is reported failed for a readback away from the
\* target only once the timeout has passed.
C32_LockPolledUntilTimeout ==
  (cli.comando = "serratura" /\ cli.pc = "done" /\ cli.why = "off")
    => cli.elapsed > timeout * 10

\* C33: the USB reset is called only in the iterations with an odd
\* index (never in the first); however it ends (done, failed, raised),
\* the iteration still calls client.connect() once, and the loop goes on,
\* returns or gives up exactly as it would without the reset: only the
\* time taken differs, and a run that gives up has made max_retries
\* connection attempts.
C33_UsbResetBestEffort ==
  /\ [][cli.pc = "connect"
          => /\ cli'.reset # "" <=> cli.attempt % 2 = 1
             /\ cli'.tries = cli.tries + 1
             /\ \E ok \in BOOLEAN :
                  cli' = [connect_with_retry(cli, ok, "failed")
                            EXCEPT !.gap = cli'.gap,
                                   !.reset = cli'.reset]]_vars
  /\ [](cli.client = "none" => cli.tries = max_retries)

C33_Witness ==
  /\ cli.reset = "raised" /\ cli.tries = 4 /\ cli.attempt = 3
  /\ cli.client = "open"

\* A run of the tool that obtained a connection has closed it when the
\* process is over, on every path.
ClosesConnection ==
  /\ cli.pc = "done" => cli.client \in {"closed", "none"}
  /\ cli.client = "none" => cli.why = "connect"

\* The one command run by the operation recorded in l was interrupted
\* while it polled the leaf, after the answered write of the setpoint.
ToolInterrupted(l) ==
  /\ Len(l.cmds) = 1
  /\ \E i \in DOMAIN l.wire : l.wire[i].rw = "I"

\* C34: every run of the tool that obtained a connection closes it before
\* the process ends (success, write failure, poll timeout, invalid
\* argument, interruption), and a controller call whose tool was
\* interrupted returns false with every field of the ActuatorState
\* unchanged.
C34_InterruptLeavesStateUnchanged ==
  /\ []ClosesConnection
  /\ [][(last'.op \in ControllerOps /\ ToolInterrupted(last'))
          => (~last'.ret /\ wc' = wc)]_vars

\* C35: every call of set_window_position, set_lock_position or
\* set_window_angle with manual = true leaves manual_mode true, whatever
\* its outcome, and only enable_auto_control takes manual_mode back to
\* false.
C35_ManualCallSetsManualMode ==
  [][/\ (last'.op \in ControllerOps /\ last'.manual) => wc'.manual_mode
     /\ (wc.manual_mode /\ ~wc'.manual_mode)
          => last'.op = "enable_auto_control"]_vars

\* The detector state of CatDetectorApp read as the state of
\* HeadlessCatDetectorCallback: presence timer, absence timer, filter.
AsCallback(a) ==
  [last_cat_time |-> a.current_detection_time,
   last_no_cat_time |-> a.current_no_detection_time,
   recent_detections |-> a.recent_detections]

\* The detector state of whichever detector runs, as a CatDetectorApp.
RunningDetector ==
  IF impl = "app" THEN app
  ELSE [current_detection_time |-> cb.last_cat_time,
        current_no_detection_time |-> cb.last_no_cat_time,
        recent_detections |-> cb.recent_detections]

\* C36: from corresponding states (same timers, same filter, same
\* controller, in automatic or in manual mode), with the filter window
\* of the detector that runs given to both, the same qualifying flag at
\* the same time and the same controller response, the two detectors
\* compute the same debounced presence, corresponding next timer and
\* filter states, and the same set_window_position request with the same
\* result; so they agree along every sequence of inputs.
C36_DetectorsAgree ==
  \A flag \in BOOLEAN, manual_mode \in BOOLEAN :
    LET a == RunningDetector
        window == filter_window
        w == [wc EXCEPT !.manual_mode = manual_mode]
        fa == update_detection_filter(a.recent_detections, flag, now,
                                      window)
        fc == update_detection_filter(AsCallback(a).recent_detections,
                                      flag, now, window)
        a1 == [a EXCEPT !.recent_detections = fa.recent_detections]
        c1 == [AsCallback(a) EXCEPT
                 !.recent_detections = fc.recent_detections]
        pa == [env \in Env |->
                 process_cat_detection(a1, w, fa.present, now, env)]
        pc == [env \in Env |->
                 cb_process_cat_detection(c1, w, fc.present, now, env)]
    IN /\ fa.present = fc.present
       /\ AsCallback(pa[OkEnv].det) = pc[OkEnv].det
       /\ pa[OkEnv].r = pc[OkEnv].r
       /\ (pa[OkEnv].r.cmds # <<>> \/ pc[OkEnv].r.cmds # <<>>)
            => \A env \in Env : /\ AsCallback(pa[env].det) = pc[env].det
                                /\ pa[env].r = pc[env].r

\* The headless detector has just opened the window on the tick where the
\* presence reached the required time.
C36_Witness ==
  /\ impl = "headless" /\ last.op = "frame" /\ last.present
  /\ last.cmds = <<"apri">> /\ last.ret
  /\ cb.last_cat_time # None
  /\ now - cb.last_cat_time >= required_detection_time

\* The flags of an ActuatorState agree with its angles.
FlagsAgree(w) ==
  /\ w.current_angle = w.target_angle
  /\ CLOSED_ANGLE <= w.current_angle /\ w.current_angle <= OPEN_ANGLE
  /\ w.is_window_open <=> w.current_angle > CLOSED_ANGLE + 5
  /\ w.current_lock_angle \in {LOCK_CLOSED, LOCK_OPEN}
  /\ w.is_window_locked <=> w.current_lock_angle = LOCK_CLOSED

\* C37: in every reachable ActuatorState the flags agree with the
\* angles: current_angle = target_angle within [CLOSED_ANGLE, OPEN_ANGLE],
\* is_window_open iff current_angle > CLOSED_ANGLE + 5, the lock angle is
\* LOCK_CLOSED or LOCK_OPEN, is_window_locked iff it is LOCK_CLOSED; and
\* from every such state a set_window_angle to either side of the
\* threshold (82 and 83 degrees) keeps it so.
C37_FlagsAgreeWithAngles ==
  /\ FlagsAgree(wc)
  /\ \A angle \in {CLOSED_ANGLE + 5, CLOSED_ANGLE + 6}, manual \in BOOLEAN :
       FlagsAgree(set_window_angle(wc, angle, manual, now, OkEnv).wc)

\* The leaf was moved to 80 degrees: unlocked, and not recorded as open.
C37_Witness ==
  /\ last.op = "set_window_angle" /\ last.ret
  /\ wc.current_angle = 80 /\ ~wc.is_window_open /\ ~wc.is_window_locked

\* C38: after any sequence of set_window_position, set_lock_position and
\* set_window_angle calls the window is never recorded as both open and
\* locked.
C38_NeverOpenAndLocked == wc.is_window_open => ~wc.is_window_locked

\* C39: last_command_time never decreases: every assignment to it,
\* the one after set_window_angle's internal unlock included, gives a
\* value >= the previous one.
C39_LastCommandTimeMonotonic ==
  [][wc'.last_command_time >= wc.last_command_time]_vars

\* C40: after enable_auto_control the time of presence (or of absence)
\* counts from the re-enabling, not from before it: in particular the
\* tick that follows enable_auto_control with no time elapsed, when the
\* presence or absence since the re-enabling has lasted 0 s, issues no
\* automatic command.
C40_DwellRestartsAfterAuto ==
  [][(last.op = "enable_auto_control" /\ last'.op = "frame")
       => last'.cmds = <<>>]_vars

====
